---- MODULE Spec2Model ----
(***************************************************************************)
(* A model of src/app.py: the WhatsApp transcript parser (parse_chat), the *)
(* feature extractor (get_base_metrics), the two scoring formulas, the     *)
(* conversation analyses and the analysis pipeline of main().              *)
(*                                                                         *)
(* Representation.                                                         *)
(*  - A transcript line is a record of the fields the line pattern of      *)
(*    parse_chat looks at; text is a sequence of tokens (words, single     *)
(*    spaces, punctuation characters, single emoji code points).           *)
(*  - A datetime is its number of minutes since 0001-01-01 00:00 (Python's *)
(*    proleptic ordinal * 1440 + minutes of the day); a timedelta is a     *)
(*    signed number of minutes.                                            *)
(*  - A float that the code obtains by one division of two integers is the *)
(*    exact fraction <<numerator, denominator>>; comparisons against the   *)
(*    decimal thresholds of the code are exact cross-multiplications (the  *)
(*    correctly rounded quotient of small integers compares with a decimal *)
(*    literal the way the exact quotient does).                            *)
(*  - Python's None and a DataFrame are the two shapes of one record.      *)
(***************************************************************************)
EXTENDS Integers, Sequences, FiniteSets

VARIABLES pc, uploaded_file, df, users, user1, user2, metrics, scores,
          avg_lovescore, status, dynamics, starter_counts

vars == <<pc, uploaded_file, df, users, user1, user2, metrics, scores,
          avg_lovescore, status, dynamics, starter_counts>>

\* The longest transcript (in lines) drawn freely from Lines.
MaxLines == 3

\* The longest am/pm marker (in characters) tried on the four-line conversation.
MaxMarker == 3

-----------------------------------------------------------------------------
(* Generic helpers *)

RECURSIVE SumSeq(_)
SumSeq(s) == IF s = <<>> THEN 0 ELSE Head(s) + SumSeq(Tail(s))

Range(s) == {s[i] : i \in DOMAIN s}

\* All sequences over S of length at most n.
BoundedSeq(S, n) == UNION {[1..k -> S] : k \in 0..n}

\* Python None / a pandas DataFrame (its rows, in index order).
None == [none |-> TRUE, rows |-> <<>>]
DataFrame(rows) == [none |-> FALSE, rows |-> rows]

\* A value not computed yet in this run / a computed value.
Unset == <<>>
Val(x) == <<x>>

-----------------------------------------------------------------------------
(* Text: tokens of a message *)

\* The placeholder WhatsApp writes for an attachment (app.py line 84).
MediaOmitted == <<"<Media omitted>">>

\* emoji.EMOJI_DATA restricted to the code points used in the inputs.
EMOJI_DATA == {"U+1F600", "U+2764"}

\* str.lower() on the word tokens of the inputs.
Lower(tok) ==
    CASE tok = "OK" -> "ok"
      [] tok = "LOL" -> "lol"
      [] OTHER -> tok

\* len() of a token in characters.
TokLen(tok) ==
    CASE tok \in {"?", "k", " "} \cup EMOJI_DATA -> 1
      [] tok \in {"hi", "ok", "OK"} -> 2
      [] tok \in {"lol", "LOL", "how", "are", "you", "hmm"} -> 3
      [] tok \in {"back", "good", "okay", "what", "haha", "yeah"} -> 4
      [] tok = "<Media omitted>" -> 15
      [] OTHER -> 5

-----------------------------------------------------------------------------
(* Calendar arithmetic of datetime *)

IsLeap(y) == (y % 4 = 0) /\ ((y % 100 # 0) \/ (y % 400 = 0))

DaysInMonth(y, m) ==
    CASE m \in {1, 3, 5, 7, 8, 10, 12} -> 31
      [] m \in {4, 6, 9, 11} -> 30
      [] OTHER -> IF IsLeap(y) THEN 29 ELSE 28

RECURSIVE DaysBeforeMonth(_, _)
DaysBeforeMonth(y, m) ==
    IF m = 1 THEN 0 ELSE DaysBeforeMonth(y, m - 1) + DaysInMonth(y, m - 1)

\* date.toordinal(): 0001-01-01 is day 1.
ToOrdinal(y, m, d) ==
    LET y1 == y - 1
    IN  y1 * 365 + (y1 \div 4) - (y1 \div 100) + (y1 \div 400)
          + DaysBeforeMonth(y, m) + d

MinutesPerDay == 1440

\* A datetime as minutes since the start of ordinal day 0.
DateTime(y, m, d, h, mi) == ToOrdinal(y, m, d) * MinutesPerDay + h * 60 + mi

\* .dt.date of a timestamp (the ordinal of its calendar day).
DateOf(ts) == ts \div MinutesPerDay

\* timedelta.days of a difference in minutes (floor division).
TimedeltaDays(delta) == delta \div MinutesPerDay

-----------------------------------------------------------------------------
(* parse_chat *)

\* A physical line shaped "<d1>/<d2>/<year>, <hour>:<minute><marker> - <user>: <message>"
\* (kind "header"), or any other text (kind "other").  ylen is the number of
\* digits the year is written with; marker is the characters between the
\* minutes and " - "; user is the characters before the first ": ".
Line(kind, d1, d2, year, ylen, hour, minute, marker, user, message) ==
    [kind |-> kind, d1 |-> d1, d2 |-> d2, year |-> year, ylen |-> ylen,
     hour |-> hour, minute |-> minute, marker |-> marker, user |-> user,
     message |-> message]

OtherLine == Line("other", 0, 0, 0, 0, 0, 0, <<>>, <<>>, <<"hi">>)

\* pattern.match(line), the regular expression of line 67:
\* \d{1,2}/\d{1,2}/\d{2,4}, \d{1,2}:\d{2}\s?[apAPm\s]* - [^:]+: .*
PatternMatch(line) ==
    /\ line.kind = "header"
    /\ line.d1 \in 0..99
    /\ line.d2 \in 0..99
    /\ line.ylen \in 2..4
    /\ line.hour \in 0..99
    /\ line.minute \in 0..99
    /\ \A i \in DOMAIN line.marker : line.marker[i] \in {"a", "p", "A", "P", "m", " "}
    /\ line.user # <<>>
    /\ \A i \in DOMAIN line.user : line.user[i] # ":"

\* The %p directive preceded by the format's whitespace: one or more spaces,
\* then am or pm in any letter case, and nothing else.
LowerChar(c) ==
    CASE c = "A" -> "a"
      [] c = "P" -> "p"
      [] c = "M" -> "m"
      [] OTHER -> c

RECURSIVE LStrip(_)
LStrip(s) == IF s # <<>> /\ Head(s) = " " THEN LStrip(Tail(s)) ELSE s

RECURSIVE RStrip(_)
RStrip(s) ==
    IF s # <<>> /\ s[Len(s)] = " " THEN RStrip(SubSeq(s, 1, Len(s) - 1)) ELSE s

\* str.strip()
Strip(s) == RStrip(LStrip(s))

AmPm(marker) ==
    LET rest == LStrip(marker)
        low == [i \in DOMAIN rest |-> LowerChar(rest[i])]
    IN  IF marker # <<>> /\ Head(marker) = " " /\ low \in {<<"a", "m">>, <<"p", "m">>}
        THEN low[1]
        ELSE "x"

\* The hour of the day from %I and %p.
Hour24(hour, ap) ==
    IF ap = "p" THEN (IF hour = 12 THEN 12 ELSE hour + 12)
    ELSE (IF hour = 12 THEN 0 ELSE hour)

\* The result of datetime.strptime: a timestamp, or ValueError.
ValueError == [ok |-> FALSE, ts |-> 0]
Parsed(ts) == [ok |-> TRUE, ts |-> ts]

\* The date-independent part of both formats: "%I:%M %p".
ClockOk(line) ==
    /\ line.hour \in 1..12
    /\ line.minute \in 0..59
    /\ AmPm(line.marker) \in {"a", "p"}

\* datetime.strptime(date_str, fmt) for a calendar date (y, m, d).
MakeDateTime(line, y, m, d) ==
    IF /\ ClockOk(line)
       /\ m \in 1..12
       /\ d >= 1
       /\ d <= DaysInMonth(y, m)
    THEN Parsed(DateTime(y, m, d, Hour24(line.hour, AmPm(line.marker)), line.minute))
    ELSE ValueError

\* datetime.strptime(date_str, '%d/%m/%Y, %I:%M %p'): %Y is four digits.
StrptimeDayFirst(line) ==
    IF line.ylen = 4 /\ line.year >= 1
    THEN MakeDateTime(line, line.year, line.d2, line.d1)
    ELSE ValueError

\* datetime.strptime(date_str, '%m/%d/%y, %I:%M %p'): %y is two digits,
\* 69..99 in the 1900s and 0..68 in the 2000s.
StrptimeMonthFirst(line) ==
    IF line.ylen = 2
    THEN MakeDateTime(line, IF line.year >= 69 THEN 1900 + line.year ELSE 2000 + line.year,
                      line.d1, line.d2)
    ELSE ValueError

\* Lines 75-78: the day-first format, then the month-first one.
ParseTimestamp(line) ==
    IF StrptimeDayFirst(line).ok THEN StrptimeDayFirst(line) ELSE StrptimeMonthFirst(line)

\* Lines 73-79: the row a line appends to data, if any.
Row(line) ==
    [timestamp |-> ParseTimestamp(line).ts, user |-> Strip(line.user),
     message |-> line.message]

AppendsRow(line) == PatternMatch(line) /\ ParseTimestamp(line).ok

\* Lines 69-79: the loop over the lines.
RECURSIVE ParseData(_)
ParseData(lines) ==
    IF lines = <<>> THEN <<>>
    ELSE (IF AppendsRow(Head(lines)) THEN <<Row(Head(lines))>> ELSE <<>>)
           \o ParseData(Tail(lines))

NotMedia(row) == row.message # MediaOmitted

\* A parser that forgets to drop the media placeholders.
KeepMedia(data) == data

\* Line 84: df[df['message'] != '<Media omitted>'].
DropMedia(data) == SelectSeq(data, NotMedia)

\* A parser that reports a failure when nothing is left after line 84.
parse_chat_empty_is_failure(chat_file) ==
    LET data == ParseData(chat_file)
    IN  IF DropMedia(data) = <<>> THEN None ELSE DataFrame(DropMedia(data))

parse_chat(chat_file) ==
    LET data == ParseData(chat_file)
    IN  IF data = <<>> THEN None ELSE DataFrame(DropMedia(data))

-----------------------------------------------------------------------------
(* Fractions *)

Frac(n, d) == <<n, d>>

\* a < b and a > b for fractions with positive denominators.
Less(a, b) == a[1] * b[2] < b[1] * a[2]
Greater(a, b) == Less(b, a)
Same(a, b) == a[1] * b[2] = b[1] * a[2]

-----------------------------------------------------------------------------
(* get_base_metrics *)

\* Line 93: the cut-off for a reply, in minutes (60*24).
ReplyWindow == 1440

\* Line 94: T when there is no reply sample.
NoReplyT == 999

\* A reply-time loop without the cut-off of line 93.
RECURSIVE ReplyTimesNoWindow(_, _, _, _)
ReplyTimesNoWindow(rows, user, other_user, n) ==
    IF n < 2 THEN <<>>
    ELSE LET time_diff == rows[n].timestamp - rows[n - 1].timestamp
             rest == ReplyTimesNoWindow(rows, user, other_user, n - 1)
         IN  IF rows[n].user = user /\ rows[n - 1].user = other_user
             THEN Append(rest, time_diff)
             ELSE rest

\* Lines 90-93: the reply times of user to other_user among rows 2..n.
RECURSIVE ReplyTimes(_, _, _, _)
ReplyTimes(rows, user, other_user, n) ==
    IF n < 2 THEN <<>>
    ELSE LET time_diff == rows[n].timestamp - rows[n - 1].timestamp
             rest == ReplyTimes(rows, user, other_user, n - 1)
         IN  IF /\ rows[n].user = user
                /\ rows[n - 1].user = other_user
                /\ time_diff < ReplyWindow
             THEN Append(rest, time_diff)
             ELSE rest

IsEmoji(tok) == tok \in EMOJI_DATA

\* sum(c in emoji.EMOJI_DATA for c in msg)
EmojiCount(msg) == Len(SelectSeq(msg, IsEmoji))

RECURSIVE SumEmoji(_)
SumEmoji(msgs) == IF msgs = <<>> THEN 0 ELSE EmojiCount(Head(msgs)) + SumEmoji(Tail(msgs))

\* df[df['user'] == user]
RowsOf(rows, user) == LET ByUser(r) == r.user = user IN SelectSeq(rows, ByUser)

Messages(rows) == [i \in DOMAIN rows |-> rows[i].message]

Timestamps(rows) == {rows[i].timestamp : i \in DOMAIN rows}

MaxOf(S) == CHOOSE x \in S : \A y \in S : y <= x
MinOf(S) == CHOOSE x \in S : \A y \in S : x <= y

\* Line 99: df['timestamp'].dt.date.nunique()
ChatDays(rows) == Cardinality({DateOf(ts) : ts \in Timestamps(rows)})

\* Line 100: (max - min).days + 1; on an empty frame max and min are NaT and
\* the comparison of line 101 is false, which total_days = 0 stands for.
TotalDays(rows) ==
    IF rows = <<>> THEN 0
    ELSE TimedeltaDays(MaxOf(Timestamps(rows)) - MinOf(Timestamps(rows))) + 1

get_base_metrics(rows, user, other_user) ==
    LET reply_times == ReplyTimes(rows, user, other_user, Len(rows))
        user_messages == Messages(RowsOf(rows, user))
        emoji_count == SumEmoji(user_messages)
        total_days == TotalDays(rows)
    IN  [T |-> IF reply_times # <<>>
               THEN Frac(SumSeq(reply_times), Len(reply_times))
               ELSE Frac(NoReplyT, 1),
         e |-> IF user_messages # <<>>
               THEN Frac(emoji_count, Len(user_messages))
               ELSE Frac(0, 1),
         m |-> IF Len(rows) > 0
               THEN Frac(Len(RowsOf(rows, user)), Len(rows))
               ELSE Frac(0, 1),
         d |-> IF total_days > 0 THEN Frac(ChatDays(rows), total_days) ELSE Frac(0, 1),
         reply_times |-> reply_times]

-----------------------------------------------------------------------------
(* Scoring *)

LoveBase == 50
FriendshipBase == 40

\* The reply-speed tiers with inclusive comparisons.
LoveRInclusive(T) ==
    IF ~Greater(T, Frac(2, 1)) THEN 25
    ELSE IF ~Greater(T, Frac(5, 1)) THEN 15
    ELSE IF ~Greater(T, Frac(10, 1)) THEN 10
    ELSE IF ~Greater(T, Frac(30, 1)) THEN 5
    ELSE -15

LoveR(T) ==
    IF Less(T, Frac(2, 1)) THEN 25
    ELSE IF Less(T, Frac(5, 1)) THEN 15
    ELSE IF Less(T, Frac(10, 1)) THEN 10
    ELSE IF Less(T, Frac(30, 1)) THEN 5
    ELSE -15

LoveE(e) ==
    IF Greater(e, Frac(5, 10)) THEN 20
    ELSE IF Greater(e, Frac(2, 10)) THEN 15
    ELSE IF Greater(e, Frac(1, 10)) THEN 10
    ELSE IF Greater(e, Frac(5, 100)) THEN 5
    ELSE 0

\* The message-share tiers with the thresholds written as percentages.
LoveMPercent(m) ==
    IF Greater(m, Frac(45, 1)) THEN 15
    ELSE IF Greater(m, Frac(35, 1)) THEN 10
    ELSE IF Greater(m, Frac(25, 1)) THEN 5
    ELSE -10

LoveM(m) ==
    IF Greater(m, Frac(45, 100)) THEN 15
    ELSE IF Greater(m, Frac(35, 100)) THEN 10
    ELSE IF Greater(m, Frac(25, 100)) THEN 5
    ELSE -10

LoveC(d) ==
    IF Greater(d, Frac(8, 10)) THEN 15
    ELSE IF Greater(d, Frac(5, 10)) THEN 10
    ELSE IF Greater(d, Frac(3, 10)) THEN 5
    ELSE 0

calculate_lovescore(T, e, m, d) ==
    LET R == LoveR(T)
        E == LoveE(e)
        M == LoveM(m)
        C == LoveC(d)
    IN  [lovescore |-> LoveBase + R + E + M + C, R |-> R, E |-> E, M |-> M, C |-> C]

FriendR(T) ==
    IF Less(T, Frac(5, 1)) THEN 20
    ELSE IF Less(T, Frac(15, 1)) THEN 10
    ELSE IF Less(T, Frac(60, 1)) THEN 5
    ELSE 0

FriendE(e) ==
    IF Greater(e, Frac(2, 10)) THEN 20
    ELSE IF Greater(e, Frac(1, 10)) THEN 15
    ELSE IF Greater(e, Frac(5, 100)) THEN 10
    ELSE 0

FriendM(m) ==
    IF Greater(m, Frac(40, 100)) THEN 20
    ELSE IF Greater(m, Frac(30, 100)) THEN 10
    ELSE -5

FriendC(d) ==
    IF Greater(d, Frac(6, 10)) THEN 20
    ELSE IF Greater(d, Frac(3, 10)) THEN 10
    ELSE 0

calculate_friendship_score(T, e, m, d) ==
    FriendshipBase + FriendR(T) + FriendE(e) + FriendM(m) + FriendC(d)

\* score >= n for the averaged score.
AtLeast(score, n) == ~Less(score, Frac(n, 1))

get_relationship_status(score) ==
    IF AtLeast(score, 90) THEN [title |-> "Soulmates", type |-> "success"]
    ELSE IF AtLeast(score, 75) /\ Less(score, Frac(90, 1))
         THEN [title |-> "The Power Couple", type |-> "success"]
    ELSE IF AtLeast(score, 60) /\ Less(score, Frac(75, 1))
         THEN [title |-> "Besties", type |-> "info"]
    ELSE IF AtLeast(score, 45) /\ Less(score, Frac(60, 1))
         THEN [title |-> "The Slow Burn", type |-> "info"]
    ELSE IF AtLeast(score, 30) /\ Less(score, Frac(45, 1))
         THEN [title |-> "Just Acquaintances", type |-> "warning"]
    ELSE [title |-> "The Ghost Town", type |-> "error"]

-----------------------------------------------------------------------------
(* analyze_chat_dynamics *)

\* Line 110: the low-effort lexicon, matched as whole words.
LowEffortReplies == {"ok", "k", "hmm", "lol", "haha", "yeah"}

IsQuestionMark(tok) == tok = "?"

\* str.count(r'\?') of one message: every occurrence counts.
QuestionMarks(msg) == Len(SelectSeq(msg, IsQuestionMark))

\* str.contains('|'.join(low_effort_replies), case=False) of one message.
IsLowEffort(msg) == \E i \in DOMAIN msg : Lower(msg[i]) \in LowEffortReplies

\* str.len() of one message.
RECURSIVE MsgLen(_)
MsgLen(msg) == IF msg = <<>> THEN 0 ELSE TokLen(Head(msg)) + MsgLen(Tail(msg))

\* Lines 108-109: .str.count(r'\?').sum()
q_count(msgs) == SumSeq([i \in DOMAIN msgs |-> QuestionMarks(msgs[i])])

\* Lines 111-112: .str.contains(...).sum()
le_count(msgs) == Len(SelectSeq(msgs, IsLowEffort))

\* Lines 113-114: .str.len().mean(); the mean of no message is NaN, written 0/0.
avg_len(msgs) == Frac(SumSeq([i \in DOMAIN msgs |-> MsgLen(msgs[i])]), Len(msgs))

analyze_chat_dynamics(rows, u1, u2) ==
    LET msgs1 == Messages(RowsOf(rows, u1))
        msgs2 == Messages(RowsOf(rows, u2))
    IN  [q_count |-> <<q_count(msgs1), q_count(msgs2)>>,
         le_count |-> <<le_count(msgs1), le_count(msgs2)>>,
         avg_len |-> <<avg_len(msgs1), avg_len(msgs2)>>]

-----------------------------------------------------------------------------
(* analyze_starters *)

\* Line 127: pd.Timedelta(hours=6), in minutes.
TimeThreshold == 360

\* A starter loop that counts a gap of exactly the threshold too.
RECURSIVE LaterStartersInclusive(_, _)
LaterStartersInclusive(rows, n) ==
    IF n < 2 THEN <<>>
    ELSE IF rows[n].timestamp - rows[n - 1].timestamp >= TimeThreshold
         THEN Append(LaterStartersInclusive(rows, n - 1), rows[n].user)
         ELSE LaterStartersInclusive(rows, n - 1)

\* Lines 130-132: the starters among rows 2..n, in order.
RECURSIVE LaterStarters(_, _)
LaterStarters(rows, n) ==
    IF n < 2 THEN <<>>
    ELSE IF rows[n].timestamp - rows[n - 1].timestamp > TimeThreshold
         THEN Append(LaterStarters(rows, n - 1), rows[n].user)
         ELSE LaterStarters(rows, n - 1)

\* Lines 126-132: the list starters.
Starters(rows) ==
    IF rows # <<>> THEN <<rows[1].user>> \o LaterStarters(rows, Len(rows)) ELSE <<>>

\* pd.Series(starters).value_counts(): each value with its number of occurrences.
ValueCounts(s) ==
    [v \in Range(s) |-> Cardinality({i \in DOMAIN s : s[i] = v})]

analyze_starters(rows) == ValueCounts(Starters(rows))

-----------------------------------------------------------------------------
(* Inputs: the transcripts that are uploaded *)

Alice == <<"Alice">>
Bob == <<"Bob">>
Carol == <<"Carol">>

am == <<" ", "a", "m">>
pm == <<" ", "p", "m">>

\* 1/1/23, 10:00 am - Alice: hi
LineA1 == Line("header", 1, 1, 23, 2, 10, 0, am, Alice, <<"hi">>)
\* 1/1/23, 11:00 pm - Bob: what??
LineB1 == Line("header", 1, 1, 23, 2, 11, 0, pm, Bob, <<"what", "?", "?">>)
\* 2/1/2023, 1:00 am - Alice: lol <emoji>      (day first: 2 January)
LineA2 == Line("header", 2, 1, 2023, 4, 1, 0, am, Alice, <<"lol", " ", "U+1F600">>)
\* 1/4/23, 12:30 pm -  Bob : OK
LineB2 == Line("header", 1, 4, 23, 2, 12, 30, pm, <<" ", "Bob", " ">>, <<"OK">>)
\* 1/1/23, 4:00 pm - Carol: okay
LineC1 == Line("header", 1, 1, 23, 2, 4, 0, pm, Carol, <<"okay">>)
\* 1/1/23, 10:01 am - Bob: <Media omitted>
LineMedia == Line("header", 1, 1, 23, 2, 10, 1, am, Bob, MediaOmitted)
\* 1/1/23, 10:00 PM - Alice: hi                (upper-case marker)
LineUpper == Line("header", 1, 1, 23, 2, 10, 0, <<" ", "P", "M">>, Alice, <<"hi">>)
\* 13/13/23, 10:00 am - Bob: hi                (no such month)
LineBadDate == Line("header", 13, 13, 23, 2, 10, 0, am, Bob, <<"hi">>)

Lines == {LineA1, LineB1, LineA2, LineB2, LineC1, LineMedia, LineUpper,
          LineBadDate, OtherLine}

\* The four-line conversation of Alice and Bob at 10:00, 10:02, 10:05 and
\* 10:06 on 1/1/23, with the times written with the given marker.
Conversation(marker) ==
    << Line("header", 1, 1, 23, 2, 10, 0, marker, Alice, <<"hi">>),
       Line("header", 1, 1, 23, 2, 10, 2, marker, Bob, <<"hi", " ", "back">>),
       Line("header", 1, 1, 23, 2, 10, 5, marker, Alice,
            <<"how", " ", "are", " ", "you", "?">>),
       Line("header", 1, 1, 23, 2, 10, 6, marker, Bob, <<"good", " ", "lol">>) >>

ConversationNoMarker == Conversation(<<>>)
ConversationAmPm == Conversation(am)

Transcripts == BoundedSeq(Lines, MaxLines) \cup {ConversationAmPm}

\* Everything that can stand between the minutes and " - " in the four-line
\* conversation: up to MaxMarker characters of a space and the letters of am/pm.
MarkerChars == {" ", "a", "p", "m", "A", "P", "M"}
Markers == BoundedSeq(MarkerChars, MaxMarker)

-----------------------------------------------------------------------------
(* main: one run of the analysis *)

\* Line 145: df['user'].unique().tolist(), in order of first appearance.
RECURSIVE Unique(_)
Unique(s) ==
    IF s = <<>> THEN <<>>
    ELSE LET init == Unique(SubSeq(s, 1, Len(s) - 1))
             last == s[Len(s)]
         IN  IF last \in Range(init) THEN init ELSE Append(init, last)

UsersOf(rows) == Unique([i \in DOMAIN rows |-> rows[i].user])

\* A cardinality check that only refuses a chat with fewer than two authors.
CardinalityAtLeastTwo(us) == Len(us) >= 2

\* Line 146: the analysis goes on only for a one-on-one chat.
CardinalityOk(us) == Len(us) = 2

Init ==
    /\ pc = "upload"
    /\ uploaded_file = Unset
    /\ df = None
    /\ users = <<>>
    /\ user1 = <<>>
    /\ user2 = <<>>
    /\ metrics = Unset
    /\ scores = Unset
    /\ avg_lovescore = Unset
    /\ status = Unset
    /\ dynamics = Unset
    /\ starter_counts = Unset

\* Line 140: a transcript is uploaded.
UploadFile ==
    /\ pc = "upload"
    /\ \E t \in Transcripts : uploaded_file' = Val(t)
    /\ pc' = "parse"
    /\ UNCHANGED <<df, users, user1, user2, metrics, scores, avg_lovescore,
                   status, dynamics, starter_counts>>

\* Lines 143-144: parse_chat; None ends the run with st.error.
ParseFile ==
    /\ pc = "parse"
    /\ df' = parse_chat(uploaded_file[1])
    /\ pc' = IF df'.none THEN "parse_error" ELSE "users"
    /\ UNCHANGED <<uploaded_file, users, user1, user2, metrics, scores,
                   avg_lovescore, status, dynamics, starter_counts>>

\* Lines 145-147: the distinct authors; any number but two ends the run.
CheckCardinality ==
    /\ pc = "users"
    /\ users' = UsersOf(df.rows)
    /\ pc' = IF CardinalityOk(users') THEN "select" ELSE "cardinality_warning"
    /\ UNCHANGED <<uploaded_file, df, user1, user2, metrics, scores,
                   avg_lovescore, status, dynamics, starter_counts>>

\* Lines 150-153: the two select boxes; the same user twice ends the run.
SelectUsers ==
    /\ pc = "select"
    /\ \E i, j \in DOMAIN users :
          /\ user1' = users[i]
          /\ user2' = users[j]
    /\ pc' = IF user1' = user2' THEN "same_user_error" ELSE "button"
    /\ UNCHANGED <<uploaded_file, df, users, metrics, scores, avg_lovescore,
                   status, dynamics, starter_counts>>

\* Lines 155-157: the button is pressed; the base metrics of both users.
ComputeBaseMetrics ==
    /\ pc = "button"
    /\ metrics' = Val(<<get_base_metrics(df.rows, user1, user2),
                        get_base_metrics(df.rows, user2, user1)>>)
    /\ pc' = "score"
    /\ UNCHANGED <<uploaded_file, df, users, user1, user2, scores,
                   avg_lovescore, status, dynamics, starter_counts>>

ScoresOf(bm) ==
    [love |-> calculate_lovescore(bm.T, bm.e, bm.m, bm.d),
     friendship |-> calculate_friendship_score(bm.T, bm.e, bm.m, bm.d)]

\* Line 163: (lovescore1 + lovescore2) / 2
AvgLoveScore(s1, s2) == Frac(s1.love.lovescore + s2.love.lovescore, 2)

\* Lines 159-163: both scores of both users and the averaged love score.
ComputeScores ==
    /\ pc = "score"
    /\ scores' = Val(<<ScoresOf(metrics[1][1]), ScoresOf(metrics[1][2])>>)
    /\ avg_lovescore' = Val(AvgLoveScore(scores'[1][1], scores'[1][2]))
    /\ pc' = "status"
    /\ UNCHANGED <<uploaded_file, df, users, user1, user2, metrics, status,
                   dynamics, starter_counts>>

\* Line 180: the relationship status of the averaged love score.
ClassifyStatus ==
    /\ pc = "status"
    /\ status' = Val(get_relationship_status(avg_lovescore[1]))
    /\ pc' = "dynamics"
    /\ UNCHANGED <<uploaded_file, df, users, user1, user2, metrics, scores,
                   avg_lovescore, dynamics, starter_counts>>

\* Line 198: the engagement balance.
AnalyzeDynamics ==
    /\ pc = "dynamics"
    /\ dynamics' = Val(analyze_chat_dynamics(df.rows, user1, user2))
    /\ pc' = "starters"
    /\ UNCHANGED <<uploaded_file, df, users, user1, user2, metrics, scores,
                   avg_lovescore, status, starter_counts>>

\* Line 212: who texts first.
AnalyzeStarters ==
    /\ pc = "starters"
    /\ starter_counts' = Val(analyze_starters(df.rows))
    /\ pc' = "done"
    /\ UNCHANGED <<uploaded_file, df, users, user1, user2, metrics, scores,
                   avg_lovescore, status, dynamics>>

Next ==
    \/ UploadFile
    \/ ParseFile
    \/ CheckCardinality
    \/ SelectUsers
    \/ ComputeBaseMetrics
    \/ ComputeScores
    \/ ClassifyStatus
    \/ AnalyzeDynamics
    \/ AnalyzeStarters

Spec == Init /\ [][Next]_vars

-----------------------------------------------------------------------------
(* main on the four-line conversation, its times written with any marker *)

InitConversation ==
    /\ pc = "parse"
    /\ \E marker \in Markers : uploaded_file = Val(Conversation(marker))
    /\ df = None
    /\ users = <<>>
    /\ user1 = <<>>
    /\ user2 = <<>>
    /\ metrics = Unset
    /\ scores = Unset
    /\ avg_lovescore = Unset
    /\ status = Unset
    /\ dynamics = Unset
    /\ starter_counts = Unset

NextConversation ==
    \/ ParseFile
    \/ CheckCardinality
    \/ SelectUsers
    \/ ComputeBaseMetrics
    \/ ComputeScores
    \/ ClassifyStatus
    \/ AnalyzeDynamics
    \/ AnalyzeStarters

SpecConversation == InitConversation /\ [][NextConversation]_vars

-----------------------------------------------------------------------------
(* The analysis functions on their own: any parsed frame, any two names *)

Names == {Alice, Bob, Carol}

InitFn ==
    /\ \E t \in Transcripts :
          /\ ~parse_chat(t).none
          /\ uploaded_file = Val(t)
          /\ df = parse_chat(t)
    /\ users = UsersOf(df.rows)
    /\ user1 \in Names
    /\ user2 \in Names
    /\ pc = "button"
    /\ metrics = Unset
    /\ scores = Unset
    /\ avg_lovescore = Unset
    /\ status = Unset
    /\ dynamics = Unset
    /\ starter_counts = Unset

NextFn ==
    \/ ComputeBaseMetrics
    \/ ComputeScores
    \/ ClassifyStatus
    \/ AnalyzeDynamics
    \/ AnalyzeStarters

SpecFn == InitFn /\ [][NextFn]_vars

-----------------------------------------------------------------------------
(* The scoring formulas on their own: any (T, e, m, d) *)

TValues == {Frac(n, 2) : n \in {0, 3, 4, 5, 9, 10, 11, 19, 20, 21, 29, 30, 31,
                                59, 60, 61, 119, 120, 121, 1998}}
EValues == {Frac(n, 100) : n \in {0, 4, 5, 6, 10, 11, 20, 21, 50, 51, 200}}
MValues == {Frac(n, 100) : n \in {0, 25, 26, 30, 31, 35, 36, 40, 41, 45, 46, 100}}
DValues == {Frac(n, 100) : n \in {0, 30, 31, 50, 51, 60, 61, 80, 81, 100, 200}}

InitScore ==
    /\ \E T \in TValues, e \in EValues, m \in MValues, d \in DValues :
          metrics = Val(<<[T |-> T, e |-> e, m |-> m, d |-> d, reply_times |-> <<>>]>>)
    /\ pc = "score"
    /\ uploaded_file = Unset
    /\ df = None
    /\ users = <<>>
    /\ user1 = <<>>
    /\ user2 = <<>>
    /\ scores = Unset
    /\ avg_lovescore = Unset
    /\ status = Unset
    /\ dynamics = Unset
    /\ starter_counts = Unset

\* calculate_lovescore and calculate_friendship_score applied to one (T, e, m, d).
ScoreOne ==
    /\ pc = "score"
    /\ scores' = Val(<<ScoresOf(metrics[1][1])>>)
    /\ pc' = "scored"
    /\ UNCHANGED <<uploaded_file, df, users, user1, user2, metrics,
                   avg_lovescore, status, dynamics, starter_counts>>

NextScore == ScoreOne

SpecScore == InitScore /\ [][NextScore]_vars

-----------------------------------------------------------------------------
(* Properties of the pipeline and of the parser *)

AfterParse == pc \notin {"upload", "parse"}

Authors(rows) == {rows[i].user : i \in DOMAIN rows}

AnyMetricComputed ==
    \/ metrics # Unset
    \/ scores # Unset
    \/ avg_lovescore # Unset
    \/ status # Unset
    \/ dynamics # Unset
    \/ starter_counts # Unset

\* C1: no metric (base metrics, love or friendship score, engagement balance,
\* starter counts) is computed unless parse_chat returned a frame, not None,
\* and the frame has exactly two distinct authors; a failed parse and any
\* other number of authors end the run with nothing computed.
C1_NoMetricWithoutTwoAuthors ==
    /\ AnyMetricComputed => (~df.none /\ Cardinality(Authors(df.rows)) = 2)
    /\ (AfterParse /\ df.none) => (pc = "parse_error" /\ ~ENABLED Next)
    /\ (pc \notin {"upload", "parse", "users"} /\ Cardinality(Authors(df.rows)) # 2)
          => (pc \in {"parse_error", "cardinality_warning"} /\ ~ENABLED Next)

\* C1 witness: a run on a two-author frame that computed every metric.
C1_Witness ==
    /\ pc = "done"
    /\ metrics # Unset
    /\ starter_counts # Unset
    /\ Cardinality(Authors(df.rows)) = 2

\* C2 as stated: parse_chat returns None exactly when no line of the
\* transcript matches the line pattern.
C2_FailureIffNoLineMatches ==
    AfterParse => (df.none <=> \A i \in DOMAIN uploaded_file[1] : ~PatternMatch(uploaded_file[1][i]))

\* C2 amended: parse_chat returns None exactly when no line both matches the
\* line pattern and carries a date and time that one of the two formats
\* parses; lines that match but carry no such date and time do not prevent the failure.
C2_FailureIffNoLineParses ==
    AfterParse =>
      LET lines == uploaded_file[1]
      IN  /\ df.none <=>
                \A i \in DOMAIN lines :
                    ~(PatternMatch(lines[i]) /\
                        (StrptimeDayFirst(lines[i]).ok \/ StrptimeMonthFirst(lines[i]).ok))
          /\ (\A i \in DOMAIN lines : ~PatternMatch(lines[i])) => df.none
          /\ df.none => df.rows = <<>>

\* C2 witness: a failure on a transcript that has a line matching the pattern
\* (with a date and time no format parses) beside a line that does not match.
C2_Witness ==
    /\ AfterParse
    /\ df.none
    /\ \E i \in DOMAIN uploaded_file[1] : PatternMatch(uploaded_file[1][i])
    /\ \E i \in DOMAIN uploaded_file[1] : ~PatternMatch(uploaded_file[1][i])

\* C3: the four-line conversation written without am/pm markers parses to
\* four records, and Bob's mean reply time to Alice is 1.5 minutes.
C3_ConversationNoMarker ==
    (AfterParse /\ uploaded_file = Val(ConversationNoMarker)) =>
        /\ ~df.none
        /\ Len(df.rows) = 4
        /\ (metrics # Unset /\ user1 = Bob /\ user2 = Alice)
              => Same(metrics[1][1].T, Frac(3, 2))

\* The same conversation with " am" after every time: four records, and
\* Bob's mean reply time to Alice is 1.5 minutes.
ConversationAmPmParses ==
    (AfterParse /\ uploaded_file = Val(ConversationAmPm)) =>
        /\ ~df.none
        /\ Len(df.rows) = 4
        /\ (metrics # Unset /\ user1 = Bob /\ user2 = Alice)
              => Same(metrics[1][1].T, Frac(3, 2))

\* The strictly increasing maps from 1..k into 1..n.
Embeddings(k, n) ==
    {f \in [1..k -> 1..n] : \A i \in 1..k : \A j \in 1..k : i < j => f[i] < f[j]}

\* C9: the frame parse_chat returns is an order-preserving subsequence of the
\* transcript's lines: record i is the record of line f(i) for a strictly
\* increasing f, every such line matches the pattern, and none of them carries
\* the media placeholder as its text.
C9_OrderPreservingSubsequence ==
    (AfterParse /\ ~df.none) =>
      LET lines == uploaded_file[1]
          rows == df.rows
      IN  /\ Len(rows) <= Len(lines)
          /\ \E f \in Embeddings(Len(rows), Len(lines)) :
                \A i \in DOMAIN rows :
                    /\ PatternMatch(lines[f[i]])
                    /\ lines[f[i]].message # MediaOmitted
                    /\ rows[i].message = lines[f[i]].message
                    /\ rows[i].user = Strip(lines[f[i]].user)
                    /\ ParseTimestamp(lines[f[i]]).ok
                    /\ rows[i].timestamp = ParseTimestamp(lines[f[i]]).ts
          /\ \A i \in DOMAIN rows : rows[i].message # MediaOmitted

\* C9 witness: two records, in transcript order though not in time order,
\* around a dropped media line.
C9_Witness ==
    /\ AfterParse
    /\ ~df.none
    /\ Len(uploaded_file[1]) = 3
    /\ uploaded_file[1][2].message = MediaOmitted
    /\ PatternMatch(uploaded_file[1][2])
    /\ Len(df.rows) = 2
    /\ df.rows[1].timestamp > df.rows[2].timestamp

-----------------------------------------------------------------------------
(* Properties of the analysis functions *)

\* The indices of the rows that follow a row after a gap of more than 6 hours.
LongGaps(rows) ==
    {i \in DOMAIN rows : i >= 2 /\ rows[i].timestamp - rows[i - 1].timestamp > TimeThreshold}

RECURSIVE SumCounts(_)
SumCounts(f) ==
    IF DOMAIN f = {} THEN 0
    ELSE LET v == CHOOSE x \in DOMAIN f : TRUE
         IN  f[v] + SumCounts([x \in DOMAIN f \ {v} |-> f[x]])

CountOf(f, v) == IF v \in DOMAIN f THEN f[v] ELSE 0

\* The count the starter rule gives author u.
ExpectedStarts(rows, u) ==
    (IF rows[1].user = u THEN 1 ELSE 0)
      + Cardinality({i \in LongGaps(rows) : rows[i].user = u})

\* C4 as stated: for every frame, the starter counts sum to 1 + the number of
\* adjacent pairs more than 6 hours apart.
C4_StarterSumEveryFrame ==
    starter_counts # Unset =>
        SumCounts(starter_counts[1]) = 1 + Cardinality(LongGaps(df.rows))

\* C4 amended: for every non-empty frame the starter counts sum to 1 + the
\* number of adjacent pairs more than 6 hours apart, the first author counted
\* once and each later row counted for its author iff its gap exceeds 6 hours;
\* for the empty frame there are no counts at all (the sum is 0).
C4_StarterSumNonEmptyFrame ==
    starter_counts # Unset =>
      LET rows == df.rows
          counts == starter_counts[1]
      IN  IF rows = <<>>
          THEN DOMAIN counts = {}
          ELSE /\ SumCounts(counts) = 1 + Cardinality(LongGaps(rows))
               /\ DOMAIN counts \subseteq Authors(rows)
               /\ \A u \in Authors(rows) : CountOf(counts, u) = ExpectedStarts(rows, u)

\* C4 witness: a frame with a gap of exactly 6 hours (no new conversation)
\* followed by a longer one (a new conversation).
C4_Witness ==
    /\ starter_counts # Unset
    /\ Len(df.rows) = 3
    /\ df.rows[2].timestamp - df.rows[1].timestamp = TimeThreshold
    /\ df.rows[3].timestamp - df.rows[2].timestamp > TimeThreshold
    /\ SumCounts(starter_counts[1]) = 2

\* C5: neither the question count nor the low-effort count of a user exceeds
\* the number of messages of that user.
C5_EngagementCountsBounded ==
    dynamics # Unset =>
      LET n1 == Len(RowsOf(df.rows, user1))
          n2 == Len(RowsOf(df.rows, user2))
          dyn == dynamics[1]
      IN  /\ dyn.q_count[1] <= n1
          /\ dyn.q_count[2] <= n2
          /\ dyn.le_count[1] <= n1
          /\ dyn.le_count[2] <= n2

\* The calendar days from the first to the last message, both included.
CalendarSpan(rows) ==
    DateOf(MaxOf(Timestamps(rows))) - DateOf(MinOf(Timestamps(rows))) + 1

\* C6: for a non-empty frame d is the number of distinct calendar days with a
\* message over the calendar span (last day - first day + 1), so 0 < d <= 1.
C6_DayCoverageIsFraction ==
    (metrics # Unset /\ df.rows # <<>>) =>
      LET d == metrics[1][1].d
      IN  /\ Same(d, Frac(ChatDays(df.rows), CalendarSpan(df.rows)))
          /\ Greater(d, Frac(0, 1))
          /\ ~Greater(d, Frac(1, 1))
          /\ metrics[1][2].d = d

\* The rows that are a reply of focal to counterpart within the window.
Replies(rows, focal, counterpart) ==
    {i \in DOMAIN rows :
        /\ i >= 2
        /\ rows[i].user = focal
        /\ rows[i - 1].user = counterpart
        /\ rows[i].timestamp - rows[i - 1].timestamp < ReplyWindow}

RECURSIVE SumGaps(_, _)
SumGaps(rows, S) ==
    IF S = {} THEN 0
    ELSE LET i == CHOOSE x \in S : TRUE
         IN  (rows[i].timestamp - rows[i - 1].timestamp) + SumGaps(rows, S \ {i})

\* The C8 statement for one (focal, counterpart) and its base metrics bm.
ReplyTimeRule(rows, focal, counterpart, bm) ==
    LET Q == Replies(rows, focal, counterpart)
    IN  IF Q = {}
        THEN /\ bm.T = Frac(NoReplyT, 1)
             /\ bm.reply_times = <<>>
             /\ calculate_lovescore(bm.T, bm.e, bm.m, bm.d).R = -15
             /\ calculate_friendship_score(bm.T, bm.e, bm.m, bm.d)
                  = FriendshipBase + 0 + FriendE(bm.e) + FriendM(bm.m) + FriendC(bm.d)
        ELSE /\ Len(bm.reply_times) = Cardinality(Q)
             /\ bm.T[2] = Cardinality(Q)
             /\ bm.T[1] = SumGaps(rows, Q)
             /\ \A k \in DOMAIN bm.reply_times : bm.reply_times[k] < ReplyWindow

\* C8: with no counterpart-then-focal pair less than 1440 minutes apart, T is
\* 999 and reply_times is empty, and T = 999 gets the lowest speed sub-score in
\* both formulas; otherwise T is the mean of the gaps of exactly those pairs.
C8_ReplyLatency ==
    metrics # Unset =>
        /\ ReplyTimeRule(df.rows, user1, user2, metrics[1][1])
        /\ ReplyTimeRule(df.rows, user2, user1, metrics[1][2])
        /\ scores # Unset =>
              /\ Replies(df.rows, user1, user2) = {} => scores[1][1].love.R = -15
              /\ Replies(df.rows, user2, user1) = {} => scores[1][2].love.R = -15

\* C8 witness: user1 answered only once, a day or more late, so the sample
\* is discarded and T is 999; user2 answered once within the window.
C8_Witness ==
    /\ scores # Unset
    /\ user1 # user2
    /\ Replies(df.rows, user1, user2) = {}
    /\ \E i \in DOMAIN df.rows :
          /\ i >= 2
          /\ df.rows[i].user = user1
          /\ df.rows[i - 1].user = user2
          /\ df.rows[i].timestamp - df.rows[i - 1].timestamp >= ReplyWindow
    /\ metrics[1][1].T = Frac(NoReplyT, 1)
    /\ Cardinality(Replies(df.rows, user2, user1)) = 1
    /\ metrics[1][2].T # Frac(NoReplyT, 1)

-----------------------------------------------------------------------------
(* Properties of the scoring formulas *)

\* The tiers of a sub-score as intervals: each is <<x is in the tier, value>>.
LoveRTiers(T) ==
    { <<Less(T, Frac(2, 1)), 25>>,
      <<~Less(T, Frac(2, 1)) /\ Less(T, Frac(5, 1)), 15>>,
      <<~Less(T, Frac(5, 1)) /\ Less(T, Frac(10, 1)), 10>>,
      <<~Less(T, Frac(10, 1)) /\ Less(T, Frac(30, 1)), 5>>,
      <<~Less(T, Frac(30, 1)), -15>> }

LoveETiers(e) ==
    { <<Greater(e, Frac(5, 10)), 20>>,
      <<~Greater(e, Frac(5, 10)) /\ Greater(e, Frac(2, 10)), 15>>,
      <<~Greater(e, Frac(2, 10)) /\ Greater(e, Frac(1, 10)), 10>>,
      <<~Greater(e, Frac(1, 10)) /\ Greater(e, Frac(5, 100)), 5>>,
      <<~Greater(e, Frac(5, 100)), 0>> }

LoveMTiers(m) ==
    { <<Greater(m, Frac(45, 100)), 15>>,
      <<~Greater(m, Frac(45, 100)) /\ Greater(m, Frac(35, 100)), 10>>,
      <<~Greater(m, Frac(35, 100)) /\ Greater(m, Frac(25, 100)), 5>>,
      <<~Greater(m, Frac(25, 100)), -10>> }

LoveCTiers(d) ==
    { <<Greater(d, Frac(8, 10)), 15>>,
      <<~Greater(d, Frac(8, 10)) /\ Greater(d, Frac(5, 10)), 10>>,
      <<~Greater(d, Frac(5, 10)) /\ Greater(d, Frac(3, 10)), 5>>,
      <<~Greater(d, Frac(3, 10)), 0>> }

FriendRTiers(T) ==
    { <<Less(T, Frac(5, 1)), 20>>,
      <<~Less(T, Frac(5, 1)) /\ Less(T, Frac(15, 1)), 10>>,
      <<~Less(T, Frac(15, 1)) /\ Less(T, Frac(60, 1)), 5>>,
      <<~Less(T, Frac(60, 1)), 0>> }

FriendETiers(e) ==
    { <<Greater(e, Frac(2, 10)), 20>>,
      <<~Greater(e, Frac(2, 10)) /\ Greater(e, Frac(1, 10)), 15>>,
      <<~Greater(e, Frac(1, 10)) /\ Greater(e, Frac(5, 100)), 10>>,
      <<~Greater(e, Frac(5, 100)), 0>> }

FriendMTiers(m) ==
    { <<Greater(m, Frac(40, 100)), 20>>,
      <<~Greater(m, Frac(40, 100)) /\ Greater(m, Frac(30, 100)), 10>>,
      <<~Greater(m, Frac(30, 100)), -5>> }

FriendCTiers(d) ==
    { <<Greater(d, Frac(6, 10)), 20>>,
      <<~Greater(d, Frac(6, 10)) /\ Greater(d, Frac(3, 10)), 10>>,
      <<~Greater(d, Frac(3, 10)), 0>> }

\* The tiers that apply, and the value of the one that does.
Applying(tiers) == {t \in tiers : t[1]}
TierValue(tiers) == (CHOOSE t \in Applying(tiers) : TRUE)[2]

\* C7: exactly one tier applies to each sub-score of both formulas, a value on
\* a threshold falls on the non-strict side (love: T = 2 gives R = 15, T = 30
\* gives R = -15, e = 0.5 gives E = 15, m = 0.45 gives M = 10, d = 0.8 gives
\* C = 10; friendship: T = 5 gives R = 10, T = 60 gives R = 0), and the total
\* is the base (50, 40) plus the four sub-scores.
C7_TiersAndTotals ==
    (pc = "scored" /\ scores # Unset) =>
      LET bm == metrics[1][1]
          love == scores[1][1].love
          friendship == scores[1][1].friendship
          all == {LoveRTiers(bm.T), LoveETiers(bm.e), LoveMTiers(bm.m), LoveCTiers(bm.d),
                  FriendRTiers(bm.T), FriendETiers(bm.e), FriendMTiers(bm.m),
                  FriendCTiers(bm.d)}
      IN  /\ \A tiers \in all : Cardinality(Applying(tiers)) = 1
          /\ love.R = TierValue(LoveRTiers(bm.T))
          /\ love.E = TierValue(LoveETiers(bm.e))
          /\ love.M = TierValue(LoveMTiers(bm.m))
          /\ love.C = TierValue(LoveCTiers(bm.d))
          /\ love.lovescore = 50 + love.R + love.E + love.M + love.C
          /\ friendship = 40 + TierValue(FriendRTiers(bm.T)) + TierValue(FriendETiers(bm.e))
                             + TierValue(FriendMTiers(bm.m)) + TierValue(FriendCTiers(bm.d))
          /\ Same(bm.T, Frac(2, 1)) => love.R = 15
          /\ Same(bm.T, Frac(30, 1)) => love.R = -15
          /\ Same(bm.e, Frac(5, 10)) => love.E = 15
          /\ Same(bm.m, Frac(45, 100)) => love.M = 10
          /\ Same(bm.d, Frac(8, 10)) => love.C = 10
          /\ (Same(bm.T, Frac(5, 1)) /\ Same(bm.e, Frac(0, 1)) /\ Same(bm.m, Frac(0, 1))
                /\ Same(bm.d, Frac(0, 1))) => friendship = 40 + 10 + 0 - 5 + 0
          /\ (Same(bm.T, Frac(60, 1)) /\ Same(bm.e, Frac(0, 1)) /\ Same(bm.m, Frac(0, 1))
                /\ Same(bm.d, Frac(0, 1))) => friendship = 40 + 0 + 0 - 5 + 0

\* C7 witness: every input of the love formula sits on a threshold.
C7_Witness ==
    /\ pc = "scored"
    /\ scores # Unset
    /\ Same(metrics[1][1].T, Frac(2, 1))
    /\ Same(metrics[1][1].e, Frac(5, 10))
    /\ Same(metrics[1][1].m, Frac(45, 100))
    /\ Same(metrics[1][1].d, Frac(8, 10))
    /\ scores[1][1].love.lovescore = 50 + 15 + 15 + 10 + 10

-----------------------------------------------------------------------------
(* The lowest status of the pipeline *)

====
